---------------------------- MODULE Spec2Model ----------------------------
(***************************************************************************)
(* Notebook5-TitrationCurves.ipynb: the titration of a weak acid with a    *)
(* strong base, cell by cell.                                              *)
(*                                                                         *)
(* Numbers.  A float is modelled as an extended rational <<n, d>>:          *)
(*   d > 0   the number n/d, in lowest terms;                               *)
(*   <<0,0>> NaN,  <<1,0>> +inf,  <<-1,0>> -inf.                            *)
(* +, -, *, / are exact on the rationals and follow IEEE-754 on the        *)
(* special values.  The irrational functions round:  np.sqrt keeps         *)
(* SqrtDigits significant decimal digits, np.log10 keeps two decimals of   *)
(* the logarithm of a 4-digit significand, both rounded to nearest.        *)
(* The notebook's own numbers (0.0513, 0.131, 0.0953, 1.76E-5) do not fit   *)
(* exact fractions in 32-bit integers once squared; they are run in decimal *)
(* floating point, <<m, 1, e>> = m * 10^e with eight significant digits,    *)
(* every operation rounded to nearest as a float's are.                    *)
(*                                                                         *)
(* Units.  Concentrations are counted in units of 1e-7 mol/L, the value of *)
(* H3O_water, so that H3O_water is 1 and equilibConst = 1.76e-5 is 176;    *)
(* a pH is  7 - log10(concentration in units).  Volumes are in litres.     *)
(***************************************************************************)
EXTENDS Integers, Sequences, FiniteSets, TLC

----------------------------------------------------------------------------
(* Numbers *)

NaN == <<0, 0>>
PosInf == <<1, 0>>
NegInf == <<-1, 0>>
Zero == <<0, 1>>
One == <<1, 1>>
Two == <<2, 1>>
Four == <<4, 1>>

Abs(i) == IF i < 0 THEN -i ELSE i
Sgn(i) == IF i < 0 THEN -1 ELSE IF i = 0 THEN 0 ELSE 1

RECURSIVE GCD(_, _)
GCD(a, b) == IF b = 0 THEN a ELSE GCD(b, a % b)

LCM(a, b) == (a \div GCD(a, b)) * b

\* n/d in lowest terms, d > 0
Norm(n, d) == LET g == GCD(Abs(n), d) IN <<n \div g, d \div g>>

Int2R(i) == <<i, 1>>
IsNaN(x) == x = NaN
IsInf(x) == x[2] = 0 /\ x[1] # 0
IsNum(x) == x[2] > 0

RECURSIVE PowTen(_)
PowTen(k) == IF k = 0 THEN 1 ELSE 10 * PowTen(k - 1)

----------------------------------------------------------------------------
(* Decimal floating point *)

\* <<m, 1, e>> is m * 10^e with 10^7 <= |m| < 10^8; zero is Zero itself
IsFloat(x) == Len(x) = 3

\* n / k rounded to the nearest integer, ties to even (k <= 10^9)
RoundDiv(n, k) ==
  LET a  == Abs(n)
      q  == a \div k
      r  == a % k
      up == 2 * r > k \/ (2 * r = k /\ q % 2 = 1)
  IN  Sgn(n) * (IF up THEN q + 1 ELSE q)

\* n * 10^e rounded to eight significant digits
RECURSIVE FNorm(_, _)
FNorm(n, e) ==
  IF n = 0 THEN Zero
  ELSE IF Abs(n) >= 1000000000 THEN FNorm(RoundDiv(n, 100), e + 2)
  ELSE IF Abs(n) >= 100000000 THEN FNorm(RoundDiv(n, 10), e + 1)
  ELSE IF Abs(n) >= 10000000 THEN <<n, 1, e>>
  ELSE FNorm(n * 10, e - 1)

\* x + y, the smaller operand aligned to one guard digit below the larger
FAdd(x, y) ==
  IF x[1] = 0 THEN y
  ELSE IF y[1] = 0 THEN x
  ELSE LET big == IF x[3] >= y[3] THEN x ELSE y
           sml == IF x[3] >= y[3] THEN y ELSE x
           d   == big[3] - sml[3]
       IN  IF d = 0 THEN FNorm(big[1] + sml[1], big[3])
           ELSE IF d > 9 THEN big
           ELSE FNorm(big[1] * 10 + RoundDiv(sml[1], PowTen(d - 1)), big[3] - 1)

\* a * b for 0 <= a, b < 10^8, exactly, as <<H, R>> = H * 10^8 + R
FProd(a, b) ==
  LET a1  == a \div 10000
      a0  == a % 10000
      b1  == b \div 10000
      b0  == b % 10000
      mid == a1 * b0 + a0 * b1
      r   == (mid % 10000) * 10000 + a0 * b0
  IN  <<a1 * b1 + mid \div 10000 + r \div 100000000, r % 100000000>>

\* x * y: the exact 16-digit product rounded to eight digits
FMul(x, y) ==
  IF x[1] = 0 \/ y[1] = 0 THEN Zero
  ELSE LET p  == FProd(Abs(x[1]), Abs(y[1]))
           s  == Sgn(x[1]) * Sgn(y[1])
           e  == x[3] + y[3]
           H2 == p[1] * 10 + p[2] \div 10000000
           R2 == p[2] % 10000000
       IN  IF p[1] >= 10000000
           THEN FNorm(s * (IF 2 * p[2] > 100000000 \/ (2 * p[2] = 100000000 /\ p[1] % 2 = 1)
                           THEN p[1] + 1 ELSE p[1]), e + 8)
           ELSE FNorm(s * (IF 2 * R2 > 10000000 \/ (2 * R2 = 10000000 /\ H2 % 2 = 1)
                           THEN H2 + 1 ELSE H2), e + 7)

\* k more decimal digits of a quotient: <<q, r>> from quotient q and remainder r < d
RECURSIVE FLongDiv(_, _, _, _)
FLongDiv(q, r, d, k) ==
  IF k = 0 THEN <<q, r>>
  ELSE FLongDiv(q * 10 + (r * 10) \div d, (r * 10) % d, d, k - 1)

\* x / y for y # 0: eight digits by long division, rounded on the remainder
FDiv(x, y) ==
  IF x[1] = 0 THEN Zero
  ELSE LET a  == Abs(x[1])
           b  == Abs(y[1])
           q0 == a \div b
           k  == IF q0 = 0 THEN 8 ELSE 7
           qr == FLongDiv(q0, a % b, b, k)
           up == 2 * qr[2] > b \/ (2 * qr[2] = b /\ qr[1] % 2 = 1)
       IN  FNorm(Sgn(x[1]) * Sgn(y[1]) * (IF up THEN qr[1] + 1 ELSE qr[1]),
                 x[3] - y[3] - k)

\* a rational or a float as a float; NaN and the infinities as they are
ToFloat(x) ==
  IF IsFloat(x) \/ x[2] = 0 THEN x
  ELSE IF x[2] = 1 THEN FNorm(x[1], 0)
  ELSE FDiv(FNorm(x[1], 0), FNorm(x[2], 0))

\* H * 10^8 + R compared
PairLeq(p, q) == p[1] < q[1] \/ (p[1] = q[1] /\ p[2] <= q[2])

\* the largest s in lo..hi-1 with s*s <= N, given lo*lo <= N < hi*hi; N = <<H, R>>
RECURSIVE FISqrtBetween(_, _, _)
FISqrtBetween(N, lo, hi) ==
  IF hi - lo <= 1 THEN lo
  ELSE LET mid == (lo + hi) \div 2
       IN  IF PairLeq(FProd(mid, mid), N) THEN FISqrtBetween(N, mid, hi)
           ELSE FISqrtBetween(N, lo, mid)

\* sqrt(x) for x > 0 to eight digits, rounded to nearest
FSqrt(x) ==
  LET m    == x[1]
      even == x[3] % 2 = 0
      N    == IF even THEN <<m, 0>> ELSE <<m \div 10, (m % 10) * 10000000>>
      e    == IF even THEN (x[3] - 8) \div 2 ELSE (x[3] - 7) \div 2
      s0   == FISqrtBetween(N, 10000000, 100000000)
      sq   == FProd(s0, s0)
      t    == sq[2] + s0
      \* s0^2 + s0 < N: the root is nearer to s0 + 1
      up   == ~PairLeq(N, <<sq[1] + t \div 100000000, t % 100000000>>)
  IN  FNorm(IF up THEN s0 + 1 ELSE s0, e)

----------------------------------------------------------------------------
(* Arithmetic of the notebook's floats *)

Neg(x) == IF IsFloat(x) THEN <<-x[1], 1, x[3]>> ELSE <<-x[1], x[2]>>

Add(x, y) ==
  IF IsNaN(x) \/ IsNaN(y) THEN NaN
  ELSE IF IsInf(x) THEN (IF IsInf(y) /\ y # x THEN NaN ELSE x)
  ELSE IF IsInf(y) THEN y
  ELSE IF IsFloat(x) \/ IsFloat(y) THEN FAdd(ToFloat(x), ToFloat(y))
  ELSE LET l == LCM(x[2], y[2])
       IN  Norm(x[1] * (l \div x[2]) + y[1] * (l \div y[2]), l)

Sub(x, y) == Add(x, Neg(y))

Mul(x, y) ==
  IF IsNaN(x) \/ IsNaN(y) THEN NaN
  ELSE IF IsInf(x) \/ IsInf(y)
       THEN (IF x[1] = 0 \/ y[1] = 0 THEN NaN ELSE <<Sgn(x[1]) * Sgn(y[1]), 0>>)
  ELSE IF x[1] = 0 \/ y[1] = 0 THEN Zero
  ELSE IF IsFloat(x) \/ IsFloat(y) THEN FMul(ToFloat(x), ToFloat(y))
  ELSE LET g1 == GCD(Abs(x[1]), y[2])
           g2 == GCD(Abs(y[1]), x[2])
       IN  <<(x[1] \div g1) * (y[1] \div g2), (x[2] \div g2) * (y[2] \div g1)>>

\* numpy's float division: x/0 is +-inf, 0/0 and inf/inf are NaN (a warning, no exception)
Div(x, y) ==
  IF IsNaN(x) \/ IsNaN(y) THEN NaN
  ELSE IF IsInf(y) THEN (IF IsInf(x) THEN NaN ELSE Zero)
  ELSE IF y[1] = 0 THEN (IF x[1] = 0 THEN NaN ELSE <<Sgn(x[1]), 0>>)
  ELSE IF IsFloat(x) \/ IsFloat(y) THEN FDiv(ToFloat(x), ToFloat(y))
  ELSE Mul(x, <<Sgn(y[1]) * y[2], Abs(y[1])>>)

\* comparisons: every comparison with NaN is false
Less(x, y) ==
  IF IsNaN(x) \/ IsNaN(y) THEN FALSE
  ELSE IF IsInf(x) \/ IsInf(y)
       THEN (IF x = y THEN FALSE ELSE x = NegInf \/ y = PosInf)
  ELSE Add(x, Neg(y))[1] < 0

Leq(x, y) == ~IsNaN(x) /\ ~IsNaN(y) /\ ~Less(y, x)

AbsR(x) == IF IsFloat(x) THEN <<Abs(x[1]), 1, x[3]>> ELSE <<Abs(x[1]), x[2]>>

----------------------------------------------------------------------------
(* np.sqrt and np.log10 *)

\* significant decimal digits np.sqrt keeps in the model
SqrtDigits == 3

\* the largest s in lo..hi-1 with s*s <= x, given lo*lo <= x < hi*hi
RECURSIVE ISqrtBetween(_, _, _)
ISqrtBetween(x, lo, hi) ==
  IF hi - lo <= 1 THEN lo
  ELSE LET mid == (lo + hi) \div 2
       IN  IF mid * mid <= x THEN ISqrtBetween(x, mid, hi)
           ELSE ISqrtBetween(x, lo, mid)

\* <<floor((q + r/d) * 100^j), k + j>> for the least j >= 0 that brings it to lo or more
RECURSIVE ScaleUp100(_, _, _, _, _)
ScaleUp100(q, r, d, k, lo) ==
  IF q >= lo THEN <<q, k>>
  ELSE ScaleUp100(q * 100 + (r * 100) \div d, (r * 100) % d, d, k + 1, lo)

\* <<floor(q / 100^j), k - j>> for the least j >= 0 that brings it below hi
RECURSIVE ScaleDown100(_, _, _)
ScaleDown100(q, k, hi) ==
  IF q < hi THEN <<q, k>> ELSE ScaleDown100(q \div 100, k - 1, hi)

\* np.sqrt: NaN for a negative number (RuntimeWarning, no exception); otherwise the
\* root rounded to SqrtDigits significant digits: round(sqrt(x) * 10^k) / 10^k
Sqrt(x) ==
  IF IsNaN(x) \/ x[1] < 0 THEN NaN
  ELSE IF IsInf(x) THEN PosInf
  ELSE IF x[1] = 0 THEN Zero
  ELSE IF IsFloat(x) THEN FSqrt(x)
  ELSE LET lo == PowTen(2 * SqrtDigits - 2)
           hi == PowTen(2 * SqrtDigits)
           q0 == x[1] \div x[2]
           sc == IF q0 >= hi THEN ScaleDown100(q0, 0, hi)
                 ELSE ScaleUp100(q0, x[1] % x[2], x[2], 0, lo)
           s0 == ISqrtBetween(sc[1], 0, PowTen(SqrtDigits))
           s  == IF sc[1] - s0 * s0 > s0 THEN s0 + 1 ELSE s0
       IN  IF sc[2] >= 0 THEN Norm(s, PowTen(sc[2]))
           ELSE <<s * PowTen(-sc[2]), 1>>

\* ceil(1000 * 10^((j - 1/2)/100)) for j = 1..100: the significands at which log10,
\* rounded to two decimals, changes from (j-1)/100 to j/100
LogTable ==
  << 1012, 1036, 1060, 1084, 1110, 1136, 1162, 1189, 1217, 1245,
     1274, 1304, 1334, 1365, 1397, 1429, 1463, 1497, 1532, 1567,
     1604, 1641, 1679, 1718, 1758, 1799, 1841, 1884, 1928, 1973,
     2019, 2066, 2114, 2163, 2214, 2265, 2318, 2372, 2427, 2484,
     2541, 2601, 2661, 2723, 2787, 2852, 2918, 2986, 3055, 3127,
     3199, 3274, 3350, 3428, 3508, 3590, 3673, 3759, 3846, 3936,
     4028, 4121, 4217, 4316, 4416, 4519, 4624, 4732, 4842, 4955,
     5070, 5189, 5309, 5433, 5560, 5689, 5822, 5957, 6096, 6238,
     6383, 6532, 6684, 6840, 6999, 7162, 7329, 7499, 7674, 7853,
     8036, 8223, 8414, 8610, 8811, 9016, 9226, 9441, 9661, 9886 >>

\* <<floor((q + r/d) * 10^j), j>> for the least j >= 0 that brings it to 1000 or more
RECURSIVE ScaleUp10(_, _, _, _)
ScaleUp10(q, r, d, k) ==
  IF q >= 1000 THEN <<q, k>>
  ELSE ScaleUp10(q * 10 + (r * 10) \div d, (r * 10) % d, d, k + 1)

RECURSIVE ScaleDown10(_, _)
ScaleDown10(q, k) ==
  IF q < 10000 THEN <<q, k>> ELSE ScaleDown10(q \div 10, k - 1)

\* np.log10: NaN for a negative number, -inf for 0 (RuntimeWarning, no exception);
\* otherwise exponent + table[significand], rounded to two decimals
Log10(x) ==
  IF IsNaN(x) \/ x[1] < 0 THEN NaN
  ELSE IF IsInf(x) THEN PosInf
  ELSE IF x[1] = 0 THEN NegInf
  ELSE IF IsFloat(x)
       THEN LET j == Cardinality({i \in 1..100 : LogTable[i] <= x[1] \div 10000})
            IN  Norm(100 * (x[3] + 7) + j, 100)
  ELSE LET q0 == x[1] \div x[2]
           sc == IF q0 >= 10000 THEN ScaleDown10(q0, 0)
                 ELSE ScaleUp10(q0, x[1] % x[2], x[2], 0)
           j  == Cardinality({i \in 1..100 : LogTable[i] <= sc[1]})
       IN  Norm(100 * (3 - sc[2]) + j, 100)

\* log10 of the concentration unit, 1e-7 mol/L
LogUnit == <<-7, 1>>

\* -np.log10(c) for a concentration c given in units of 1e-7 mol/L
MinusLog10(c) == Neg(Add(Log10(c), LogUnit))

----------------------------------------------------------------------------
(* "{:.3}".format(x): three significant digits, ties to even *)

\* <<floor((q + r/d) * 10^j), remainder, j>> for the least j >= 0 that brings it to 1000 or more
RECURSIVE FmtUp(_, _, _, _)
FmtUp(q, r, d, k) ==
  IF q >= 1000 THEN <<q, r, k>>
  ELSE FmtUp(q * 10 + (r * 10) \div d, (r * 10) % d, d, k + 1)

\* <<floor(q / 10^j), 1 if anything was cut off else 0, -j>> below 10000
RECURSIVE FmtDown(_, _, _)
FmtDown(q, r, k) ==
  IF q < 10000 THEN <<q, r, k>>
  ELSE FmtDown(q \div 10, IF q % 10 # 0 \/ r # 0 THEN 1 ELSE 0, k - 1)

\* the text printed for x, as <<kind, m, e>>: the number m * 10^e with 100 <= |m| <= 999
Fmt3(x) ==
  IF IsNaN(x) THEN <<"nan", 0, 0>>
  ELSE IF IsInf(x) THEN <<"inf", x[1], 0>>
  ELSE IF x[1] = 0 THEN <<"num", 0, 0>>
  ELSE LET n  == Abs(x[1])
           q0 == n \div x[2]
           sc == IF IsFloat(x)
                 THEN <<n \div 10000, IF n % 10000 # 0 THEN 1 ELSE 0, -(x[3] + 4)>>
                 ELSE IF q0 >= 10000 THEN FmtDown(q0, IF n % x[2] # 0 THEN 1 ELSE 0, 0)
                 ELSE FmtUp(q0, n % x[2], x[2], 0)
           m  == sc[1] \div 10
           last == sc[1] % 10
           up == \/ last > 5
                 \/ last = 5 /\ sc[2] # 0
                 \/ last = 5 /\ sc[2] = 0 /\ m % 2 = 1
           m1 == IF up THEN m + 1 ELSE m
           e  == 1 - sc[3]
       IN  IF m1 = 1000 THEN <<"num", Sgn(x[1]) * 100, e + 1>>
           ELSE <<"num", Sgn(x[1]) * m1, e>>

----------------------------------------------------------------------------
(* The notebook's state *)

VARIABLES
  pc,             \* the cell to run next
  raised,         \* the exception that stopped the run, or "none"
  printed,        \* what the cells printed, in order
  acid_VolI, acid_ConI, base_Con,          \* TitrationSpec: V_a, C_a, C_b
  acid_MolI, eq_pt, half_eq_pt,            \* EquivalencePoint
  datapts,                                 \* samples per regime
  PreHalfEqVols, VolStep, PostHalfEqVols, VolStep2,
  quadArgs, solutions, conc_H3O, pH,       \* the quad_solve check of cell 4
  equilibConst,                            \* K_a
  init_baseConc, init_acidConc, pre_solutions, preH3Oconc, pre_pH,
  V_max, PostEqVols, curveVols,            \* POST_EQ grid and the assembled curve
  firstCall,      \* history: the inputs and results of the first completed run
  prevInputs      \* history: the inputs of the run before this one

vars == << pc, raised, printed, acid_VolI, acid_ConI, base_Con, acid_MolI, eq_pt,
           half_eq_pt, datapts, PreHalfEqVols, VolStep, PostHalfEqVols, VolStep2,
           quadArgs, solutions, conc_H3O, pH, equilibConst, init_baseConc,
           init_acidConc, pre_solutions, preH3Oconc, pre_pH, V_max, PostEqVols,
           curveVols,
                  firstCall, prevInputs >>

\* a name not yet assigned
Unset == <<>>

\* bounds of the inputs
MaxVol == 2
MaxConc == 2
MaxSamples == 3
MaxVmax == 3

Volumes == {Int2R(i) : i \in 1..MaxVol}
Concs == {Int2R(i) : i \in 1..MaxConc}
VmaxValues == {Int2R(i) : i \in 1..MaxVmax}

\* K_a in units of 1e-7: below, at and above H3O_water, and the notebook's 1.76e-5
KaValues == {<<1, 4>>, One, Four, <<176, 1>>}

\* H3O_water = 1E-7, which is the concentration unit
H3O_water == One

\* quad_solve(1, 1.76E-5, -0.131*1.76E-5), b in units of 1e-7 and c in units of 1e-14
QuadTestArgs == <<One, <<176, 1>>, <<-230560000, 1>>>>

----------------------------------------------------------------------------
(* The functions the cells use *)

\* b**2 - 4 * a * c
Discriminant(a, b, c) == Sub(Mul(b, b), Mul(Mul(Four, a), c))

\* a plausible slip: /2*a for /(2*a), which divides by 2 and multiplies by a
quad_solve_precedence(a, b, c) ==
  LET discrim == Sqrt(Discriminant(a, b, c))
      sol1 == Mul(Div(Add(Neg(b), discrim), Two), a)
      sol2 == Mul(Div(Sub(Neg(b), discrim), Two), a)
  IN  <<sol1, sol2>>

\* quad_solve(a, b, c): [sol1, sol2], the "+" root first; no branch, no exception
quad_solve(a, b, c) ==
  LET discrim == Sqrt(Discriminant(a, b, c))
      sol1 == Div(Add(Neg(b), discrim), Mul(Two, a))
      sol2 == Div(Sub(Neg(b), discrim), Mul(Two, a))
  IN  <<sol1, sol2>>

\* a plausible slip: endpoint=False not honoured (np.linspace's default is endpoint=True)
LinspaceClosed(start, stop, num, endpoint) ==
  LET delta == Sub(stop, start)
  IN  [k \in 1..num |->
         IF num = 1 THEN start
         ELSE IF k = num THEN stop
         ELSE Add(Mul(Int2R(k - 1), Div(delta, Int2R(num - 1))), start)]

\* np.linspace(start, stop, num, endpoint): y[i] = start + i * step, i = 0..num-1,
\* step = (stop - start) / div; with endpoint the last value is set to stop
Linspace(start, stop, num, endpoint) ==
  LET div   == IF endpoint THEN num - 1 ELSE num
      delta == Sub(stop, start)
      step  == Div(delta, Int2R(div))
      y(i)  == IF num > 1
               THEN (IF step = Zero
                     THEN Add(Mul(Div(Int2R(i), Int2R(div)), delta), start)
                     ELSE Add(Mul(Int2R(i), step), start))
               ELSE Add(Mul(Int2R(i), delta), start)
  IN  [k \in 1..num |->
         IF endpoint /\ num > 1 /\ k = num THEN stop ELSE y(k - 1)]

\* the step np.linspace returns with retstep=True; for num = 1 it is NaN in the numpy
\* releases that test num > 1 and delta/div in those that test div > 0
LinspaceSteps(start, stop, num, endpoint) ==
  LET div   == IF endpoint THEN num - 1 ELSE num
      delta == Sub(stop, start)
  IN  IF num > 1 THEN {Div(delta, Int2R(div))}
      ELSE IF div > 0 THEN {NaN, Div(delta, Int2R(div))}
      ELSE {NaN}

\* a plausible slip: eq_pt where half_eq_pt was meant, so the grid runs on to V_eq
PreHalfGridToEq(half, n) == Linspace(Zero, Add(half, half), n, FALSE)

\* a plausible slip: endpoint=False left out, so the grid ends on half_eq_pt itself
PreHalfGridClosed(half, n) == Linspace(Zero, half, n, TRUE)

\* np.linspace(0, half_eq_pt, num=datapts, endpoint=False)
PreHalfGrid(half, n) == Linspace(Zero, half, n, FALSE)

\* a plausible slip: endpoint=False left out, so the grid ends on eq_pt itself
PostHalfGridClosed(half, eq, n) == Linspace(half, eq, n, TRUE)

\* a plausible slip: the first grid's call copied without changing its start
PostHalfGridFromZero(half, eq, n) == Linspace(Zero, eq, n, FALSE)

\* np.linspace(half_eq_pt, eq_pt, num=datapts, endpoint=False)
PostHalfGrid(half, eq, n) == Linspace(half, eq, n, FALSE)

\* the POST_EQ grid over the closed interval [V_eq, V_max]
PostEqGrid(eq, vmax, n) == Linspace(eq, vmax, n, TRUE)

\* a plausible slip: acid_MolI += ..., which adds to what an earlier run left behind
MolIAccumulated(vol, con) ==
  IF acid_MolI = Unset THEN Mul(vol, con) ELSE Add(acid_MolI, Mul(vol, con))

\* acid_MolI = acid_VolI * acid_ConI
MolI(vol, con) == Mul(vol, con)

\* eq_pt = acid_MolI / base_Con  (Python floats: the caller handles base_Con = 0)
EqPt(mol, con) == Div(mol, con)

\* a plausible slip: the division by 2 left out
HalfEqPtWhole(eq) == eq

\* half_eq_pt = eq_pt / 2
HalfEqPt(eq) == Div(eq, Two)

\* init_baseConc = (PreHalfEqVols*base_Con)/(PreHalfEqVols+acid_VolI)
InitBaseConc(v, va, cb) == Div(Mul(v, cb), Add(v, va))

\* a plausible slip: the acid that the base has consumed not taken off
InitAcidConcUntitrated(v, va, ca, cb) == Div(Mul(ca, va), Add(v, va))

\* init_acidConc = (acid_ConI*acid_VolI-PreHalfEqVols*base_Con)/(PreHalfEqVols+acid_VolI)
InitAcidConc(v, va, ca, cb) == Div(Sub(Mul(ca, va), Mul(v, cb)), Add(v, va))

\* the quadratic of the pre-half cell: a = 1, b, c
\* (PreQuadCSwapped is a plausible slip: the two constants exchanged)
PreQuadB(base, ka) == Add(Add(base, ka), H3O_water)
PreQuadCSwapped(base, acid, ka) == Sub(Mul(base, ka), Mul(acid, H3O_water))
PreQuadC(base, acid, ka) == Sub(Mul(base, H3O_water), Mul(acid, ka))

\* quad_solve on arrays: a list of two arrays
PreSolutions(base, acid, ka) ==
  LET sol(i) == quad_solve(One, PreQuadB(base[i], ka), PreQuadC(base[i], acid[i], ka))
  IN  << [i \in 1..Len(base) |-> sol(i)[1]], [i \in 1..Len(base) |-> sol(i)[2]] >>

\* a plausible slip: pre_solutions[1], the "-" root
PreH3OSecond(sols) == sols[2]

\* preH3Oconc = pre_solutions[0]
PreH3O(sols) == sols[1]

\* the excess-strong-base model: excess titrant moles, [OH-] and pH = 14 + log10([OH-])
\* (concentrations in units of 1e-7 mol/L: 14 + log10 is 7 + the logarithm in units)
PostEqExcess(v, mol, cb) == Sub(Mul(v, cb), mol)
PostEqOH(v, va, mol, cb) == Div(PostEqExcess(v, mol, cb), Add(va, v))
PostEqPH(v, va, mol, cb) ==
  Add(Int2R(14), Add(Log10(PostEqOH(v, va, mol, cb)), LogUnit))

\* the pre-half cell's pH for the single volume v
PreHalfPhAt(v, va, ca, cb, ka) ==
  MinusLog10(PreH3O(PreSolutions(<<InitBaseConc(v, va, cb)>>,
                                 <<InitAcidConc(v, va, ca, cb)>>, ka))[1])

\* the three regimes' volumes, concatenated in regime order, not sorted
Assemble(pre, mid, post) == pre \o mid \o post

\* what one run is given: the TitrationSpec, V_max and the samples per regime
CallInputs == <<acid_VolI, acid_ConI, base_Con, equilibConst, V_max, datapts>>

\* what one run has computed before the curve is assembled
CallResults == <<acid_MolI, eq_pt, half_eq_pt, PreHalfEqVols, PostHalfEqVols, pre_pH,
                 PostEqVols>>

----------------------------------------------------------------------------
(* The cells *)

\* cell 2: moles of acid, equivalence and half-equivalence volumes, each printed.
\* Python float division raises ZeroDivisionError; the first print has happened by then.
EquivalenceCell ==
  /\ pc = "cell2"
  /\ acid_MolI' = MolI(acid_VolI, acid_ConI)
  /\ IF base_Con = Zero
     THEN /\ raised' = "ZeroDivisionError"
          /\ pc' = "aborted"
          /\ printed' = Append(printed, Fmt3(acid_MolI'))
          /\ UNCHANGED <<eq_pt, half_eq_pt>>
     ELSE /\ eq_pt' = EqPt(acid_MolI', base_Con)
          /\ half_eq_pt' = HalfEqPt(eq_pt')
          /\ printed' = printed \o <<Fmt3(acid_MolI'), Fmt3(eq_pt'), Fmt3(half_eq_pt')>>
          /\ pc' = "cell3"
          /\ UNCHANGED raised
  /\ UNCHANGED << acid_VolI, acid_ConI, base_Con, datapts, PreHalfEqVols, VolStep,
                  PostHalfEqVols, VolStep2, quadArgs, solutions, conc_H3O, pH,
                  equilibConst, init_baseConc, init_acidConc, pre_solutions,
                  preH3Oconc, pre_pH, V_max, PostEqVols, curveVols,
                  firstCall, prevInputs >>

\* cell 3: the volumes of [0, half_eq_pt) and of [half_eq_pt, eq_pt)
GridCell ==
  /\ pc = "cell3"
  /\ PreHalfEqVols' = PreHalfGrid(half_eq_pt, datapts)
  /\ VolStep' \in LinspaceSteps(Zero, half_eq_pt, datapts, FALSE)
  /\ PostHalfEqVols' = PostHalfGrid(half_eq_pt, eq_pt, datapts)
  /\ VolStep2' \in LinspaceSteps(half_eq_pt, eq_pt, datapts, FALSE)
  /\ pc' = "cell4"
  /\ UNCHANGED << raised, printed, acid_VolI, acid_ConI, base_Con, acid_MolI, eq_pt,
                  half_eq_pt, datapts, quadArgs, solutions, conc_H3O, pH,
                  equilibConst, init_baseConc, init_acidConc, pre_solutions,
                  preH3Oconc, pre_pH, V_max, PostEqVols, curveVols,
                  firstCall, prevInputs >>

\* cell 4: quad_solve is defined and tried on the pure weak acid
QuadTestCell ==
  /\ pc = "cell4"
  /\ solutions' = quad_solve(quadArgs[1], quadArgs[2], quadArgs[3])
  /\ conc_H3O' = solutions'[1]
  /\ pH' = MinusLog10(conc_H3O')
  /\ printed' = Append(printed, Fmt3(pH'))
  /\ pc' = "cell9"
  /\ UNCHANGED << raised, acid_VolI, acid_ConI, base_Con, acid_MolI, eq_pt,
                  half_eq_pt, datapts, PreHalfEqVols, VolStep, PostHalfEqVols,
                  VolStep2, quadArgs, equilibConst, init_baseConc, init_acidConc,
                  pre_solutions, preH3Oconc, pre_pH, V_max, PostEqVols, curveVols,
                  firstCall, prevInputs >>

\* a plausible slip: the pre-half cell drops the sample at v = 0 from the grid that
\* cell 3 made, before evaluating the model on it
PreHalfCellTrimsGrid ==
  /\ pc = "cell9"
  /\ PreHalfEqVols' = Tail(PreHalfEqVols)
  /\ init_baseConc' = [i \in 1..Len(PreHalfEqVols') |->
                         InitBaseConc(PreHalfEqVols'[i], acid_VolI, base_Con)]
  /\ init_acidConc' = [i \in 1..Len(PreHalfEqVols') |->
                         InitAcidConc(PreHalfEqVols'[i], acid_VolI, acid_ConI, base_Con)]
  /\ pre_solutions' = PreSolutions(init_baseConc', init_acidConc', equilibConst)
  /\ preH3Oconc' = PreH3O(pre_solutions')
  /\ pre_pH' = [i \in 1..Len(preH3Oconc') |-> MinusLog10(preH3Oconc'[i])]
  /\ pc' = "cell10"
  /\ UNCHANGED << raised, printed, acid_VolI, acid_ConI, base_Con, acid_MolI, eq_pt,
                  half_eq_pt, datapts, VolStep, PostHalfEqVols,
                  VolStep2, quadArgs, solutions, conc_H3O, pH, equilibConst, V_max,
                  PostEqVols, curveVols,
                  firstCall, prevInputs >>

\* cell 9: the pH at every volume of PreHalfEqVols (numpy arrays, element by element)
PreHalfCell ==
  /\ pc = "cell9"
  /\ init_baseConc' = [i \in 1..Len(PreHalfEqVols) |->
                         InitBaseConc(PreHalfEqVols[i], acid_VolI, base_Con)]
  /\ init_acidConc' = [i \in 1..Len(PreHalfEqVols) |->
                         InitAcidConc(PreHalfEqVols[i], acid_VolI, acid_ConI, base_Con)]
  /\ pre_solutions' = PreSolutions(init_baseConc', init_acidConc', equilibConst)
  /\ preH3Oconc' = PreH3O(pre_solutions')
  /\ pre_pH' = [i \in 1..Len(preH3Oconc') |-> MinusLog10(preH3Oconc'[i])]
  /\ pc' = "cell10"
  /\ UNCHANGED << raised, printed, acid_VolI, acid_ConI, base_Con, acid_MolI, eq_pt,
                  half_eq_pt, datapts, PreHalfEqVols, VolStep, PostHalfEqVols,
                  VolStep2, quadArgs, solutions, conc_H3O, pH, equilibConst, V_max,
                  PostEqVols, curveVols,
                  firstCall, prevInputs >>

\* cell 10: the plot of pre_pH against PreHalfEqVols; it assigns nothing
PlotCell ==
  /\ pc = "cell10"
  /\ pc' = "postEq"
  /\ UNCHANGED << raised, printed, acid_VolI, acid_ConI, base_Con, acid_MolI, eq_pt,
                  half_eq_pt, datapts, PreHalfEqVols, VolStep, PostHalfEqVols,
                  VolStep2, quadArgs, solutions, conc_H3O, pH, equilibConst,
                  init_baseConc, init_acidConc, pre_solutions, preH3Oconc, pre_pH,
                  V_max, PostEqVols, curveVols,
                  firstCall, prevInputs >>

\* the volumes from the equivalence point up to V_max (the notebook's last cell, left
\* to the reader: "from the equivalence point up to 0.15 liters")
PostEqGridCell ==
  /\ pc = "postEq"
  /\ PostEqVols' = PostEqGrid(eq_pt, V_max, datapts)
  /\ pc' = "assemble"
  /\ UNCHANGED << raised, printed, acid_VolI, acid_ConI, base_Con, acid_MolI, eq_pt,
                  half_eq_pt, datapts, PreHalfEqVols, VolStep, PostHalfEqVols,
                  VolStep2, quadArgs, solutions, conc_H3O, pH, equilibConst,
                  init_baseConc, init_acidConc, pre_solutions, preH3Oconc, pre_pH,
                  V_max, curveVols,
                  firstCall, prevInputs >>

\* the Curve Assembler: "combine your data points with the data points from above"
AssembleCurve ==
  /\ pc = "assemble"
  /\ curveVols' = Assemble(PreHalfEqVols, PostHalfEqVols, PostEqVols)
  /\ firstCall' = IF firstCall = Unset
                  THEN [inputs |-> CallInputs, curve |-> curveVols', results |-> CallResults]
                  ELSE firstCall
  /\ pc' = "done"
  /\ UNCHANGED << raised, printed, acid_VolI, acid_ConI, base_Con, acid_MolI, eq_pt,
                  half_eq_pt, datapts, PreHalfEqVols, VolStep, PostHalfEqVols,
                  VolStep2, quadArgs, solutions, conc_H3O, pH, equilibConst,
                  init_baseConc, init_acidConc, pre_solutions, preH3Oconc, pre_pH,
                  V_max, PostEqVols, prevInputs >>

----------------------------------------------------------------------------
(* Specifications *)

\* nothing computed, nothing printed
Fresh ==
  /\ raised = "none"
  /\ printed = <<>>
  /\ acid_MolI = Unset /\ eq_pt = Unset /\ half_eq_pt = Unset
  /\ PreHalfEqVols = Unset /\ VolStep = Unset
  /\ PostHalfEqVols = Unset /\ VolStep2 = Unset
  /\ solutions = Unset /\ conc_H3O = Unset /\ pH = Unset
  /\ init_baseConc = Unset /\ init_acidConc = Unset /\ pre_solutions = Unset
  /\ preH3Oconc = Unset /\ pre_pH = Unset
  /\ PostEqVols = Unset /\ curveVols = Unset
  /\ firstCall = Unset /\ prevInputs = Unset

\* one run of the notebook, top to bottom, on a valid TitrationSpec
Init ==
  /\ pc = "cell2"
  /\ Fresh
  /\ acid_VolI \in Volumes
  /\ acid_ConI \in Concs
  /\ base_Con \in Concs
  /\ equilibConst \in KaValues
  /\ datapts \in 1..MaxSamples
  /\ V_max \in VmaxValues
  /\ quadArgs = QuadTestArgs

Next ==
  \/ EquivalenceCell
  \/ GridCell
  \/ QuadTestCell
  \/ PreHalfCell
  \/ PlotCell
  \/ PostEqGridCell
  \/ AssembleCurve

Spec == Init /\ [][Next]_vars

\* the notebook's own numbers: 51.3 mL of 0.131 M acid, 0.0953 M NaOH (litres, and
\* concentrations in units of 1e-7 mol/L, so that moles are in units of 1e-7 mol)
RefVol == <<513, 10000>>
RefAcidCon == <<1310000, 1>>
RefBaseCon == <<953000, 1>>

\* the equivalence geometry alone, on valid and invalid inputs
InitGeom ==
  /\ pc = "cell2"
  /\ Fresh
  /\ \E t \in {<<Int2R(v), Int2R(a), Int2R(b)>> :
                  v \in -1..MaxVol, a \in -1..MaxConc, b \in -1..MaxConc}
               \cup {<<RefVol, RefAcidCon, RefBaseCon>>} :
        acid_VolI = t[1] /\ acid_ConI = t[2] /\ base_Con = t[3]
  /\ equilibConst = <<176, 1>>
  /\ datapts = 1
  /\ V_max = One
  /\ quadArgs = QuadTestArgs

SpecGeom == InitGeom /\ [][EquivalenceCell]_vars

\* bound of the coefficients tried on quad_solve
MaxCoef == 3

\* quad_solve alone, on any coefficients
InitQuad ==
  /\ pc = "cell4"
  /\ Fresh
  /\ acid_VolI = One /\ acid_ConI = One /\ base_Con = One
  /\ equilibConst = <<176, 1>>
  /\ datapts = 1
  /\ V_max = One
  /\ quadArgs \in {<<Int2R(a), Int2R(b), Int2R(c)>> :
                     a \in -MaxCoef..MaxCoef, b \in -MaxCoef..MaxCoef, c \in -MaxCoef..MaxCoef}
                  \cup {QuadTestArgs}

SpecQuad == InitQuad /\ [][QuadTestCell]_vars

\* the inputs tried when the notebook is run again: C_a, K_a and the samples per regime
RerunInputs ==
  {<<ca, ka, n>> : ca \in Concs, ka \in {<<1, 4>>, <<176, 1>>}, n \in 1..MaxSamples}

\* the notebook is run again from the top in the same kernel, possibly with other
\* inputs: every name keeps the value the last run left in it, each cell's output
\* is replaced
Rerun ==
  /\ pc = "done"
  /\ \E t \in RerunInputs :
        acid_ConI' = t[1] /\ equilibConst' = t[2] /\ datapts' = t[3]
  /\ prevInputs' = CallInputs
  /\ printed' = <<>>
  /\ pc' = "cell2"
  /\ UNCHANGED << raised, acid_VolI, base_Con, acid_MolI, eq_pt, half_eq_pt,
                  PreHalfEqVols, VolStep, PostHalfEqVols, VolStep2, quadArgs,
                  solutions, conc_H3O, pH, init_baseConc, init_acidConc,
                  pre_solutions, preH3Oconc, pre_pH, V_max, PostEqVols, curveVols,
                  firstCall >>

\* runs of the notebook one after another
InitRerun ==
  /\ pc = "cell2"
  /\ Fresh
  /\ acid_VolI = One /\ base_Con = One
  /\ \E t \in RerunInputs :
        acid_ConI = t[1] /\ equilibConst = t[2] /\ datapts = t[3]
  /\ V_max = Int2R(MaxVmax)
  /\ quadArgs = QuadTestArgs

NextRerun ==
  \/ Next
  \/ Rerun

SpecRerun == InitRerun /\ [][NextRerun]_vars

\* the notebook's titration and the same titration with both solutions diluted
\* a hundred times, in floating point
HalfPointInputs ==
  {<<ToFloat(RefVol), Mul(ToFloat(RefAcidCon), f), Mul(ToFloat(RefBaseCon), f),
     <<176, 1>>>> : f \in {One, <<1, 100>>}}
  \cup {<<v, ca, cb, ka>> : v \in Volumes, ca \in Concs, cb \in Concs, ka \in KaValues}

\* the pre-half model asked for the half-equivalence point itself: the array of the
\* one volume half_eq_pt, which np.linspace(..., endpoint=False) leaves out
HalfSample ==
  /\ pc = "cell3"
  /\ PreHalfEqVols' = <<half_eq_pt>>
  /\ pc' = "cell9"
  /\ UNCHANGED << raised, printed, acid_VolI, acid_ConI, base_Con, acid_MolI, eq_pt,
                  half_eq_pt, datapts, VolStep, PostHalfEqVols, VolStep2, quadArgs,
                  solutions, conc_H3O, pH, equilibConst, init_baseConc, init_acidConc,
                  pre_solutions, preH3Oconc, pre_pH, V_max, PostEqVols, curveVols,
                  firstCall, prevInputs >>

InitHalf ==
  /\ pc = "cell2"
  /\ Fresh
  /\ \E t \in HalfPointInputs :
        acid_VolI = t[1] /\ acid_ConI = t[2] /\ base_Con = t[3] /\ equilibConst = t[4]
  /\ datapts = 1
  /\ V_max = One
  /\ quadArgs = QuadTestArgs

NextHalf ==
  \/ EquivalenceCell
  \/ HalfSample
  \/ PreHalfCell

SpecHalf == InitHalf /\ [][NextHalf]_vars

\* the notebook's own run: its titration, datapts = 100 or fewer samples, and the
\* titrant added up to 0.15 L (or 0.1 L), in floating point
RefSamples == {1, 2, 5, 10, 20, 50, 100}
RefVmax == {<<15, 100>>, <<1, 10>>}

InitRef ==
  /\ pc = "cell2"
  /\ Fresh
  /\ acid_VolI = ToFloat(RefVol)
  /\ acid_ConI = ToFloat(RefAcidCon)
  /\ base_Con = ToFloat(RefBaseCon)
  /\ equilibConst = <<176, 1>>
  /\ datapts \in RefSamples
  /\ \E vm \in RefVmax : V_max = ToFloat(vm)
  /\ quadArgs = <<One, <<176, 1>>, Neg(Mul(ToFloat(RefAcidCon), <<176, 1>>))>>

SpecRef == InitRef /\ [][Next]_vars

----------------------------------------------------------------------------
(* Properties *)

Range(seq) == {seq[i] : i \in 1..Len(seq)}
NonDecreasing(seq) == \A i \in 1..(Len(seq) - 1) : Leq(seq[i], seq[i + 1])
StrictlyAscending(seq) == \A i \in 1..(Len(seq) - 1) : Less(seq[i], seq[i + 1])

\* the regimes' intervals [0, V_half), [V_half, V_eq), [V_eq, V_max]
InPreHalf(v) == Leq(Zero, v) /\ Less(v, half_eq_pt)
InHalfToEq(v) == Leq(half_eq_pt, v) /\ Less(v, eq_pt)
InPostEq(v) == Leq(eq_pt, v) /\ Leq(v, V_max)
RegimesOf(v) ==
  (IF InPreHalf(v) THEN {"PRE_HALF"} ELSE {}) \cup
  (IF InHalfToEq(v) THEN {"HALF_TO_EQ"} ELSE {}) \cup
  (IF InPostEq(v) THEN {"POST_EQ"} ELSE {})

\* volumes to try: quarters from below 0 to above V_max, and every sample
ProbeVols ==
  {Norm(i, 4) : i \in -2..(4 * V_max[1] + 2)} \cup Range(curveVols)

C2_RegimesPartitionForEveryVmax ==
  pc = "done" =>
     /\ \A v \in ProbeVols :
          /\ Cardinality(RegimesOf(v)) <= 1
          /\ (Leq(Zero, v) /\ Leq(v, V_max)) <=> (Cardinality(RegimesOf(v)) = 1)
     /\ Range(PreHalfEqVols) \cap Range(PostHalfEqVols) = {}
     /\ Range(PreHalfEqVols) \cap Range(PostEqVols) = {}
     /\ Range(PostHalfEqVols) \cap Range(PostEqVols) = {}

\* C2, amended: when V_max >= V_eq, every volume of [0, V_max] lies in exactly one
\* regime and no other volume lies in any, every grid's samples lie in its own regime,
\* and no volume is a sample of two grids.
C2_RegimesPartition ==
  (pc = "done" /\ Leq(eq_pt, V_max)) =>
     /\ \A v \in ProbeVols :
          /\ Cardinality(RegimesOf(v)) <= 1
          /\ (Leq(Zero, v) /\ Leq(v, V_max)) <=> (Cardinality(RegimesOf(v)) = 1)
     /\ \A v \in Range(PreHalfEqVols) : RegimesOf(v) = {"PRE_HALF"}
     /\ \A v \in Range(PostHalfEqVols) : RegimesOf(v) = {"HALF_TO_EQ"}
     /\ \A v \in Range(PostEqVols) : RegimesOf(v) = {"POST_EQ"}
     /\ Range(PreHalfEqVols) \cap Range(PostHalfEqVols) = {}
     /\ Range(PreHalfEqVols) \cap Range(PostEqVols) = {}
     /\ Range(PostHalfEqVols) \cap Range(PostEqVols) = {}

C2_Witness ==
  /\ pc = "done"
  /\ Less(eq_pt, V_max)
  /\ datapts >= 2
  /\ \E v \in ProbeVols : RegimesOf(v) = {"HALF_TO_EQ"} /\ v \notin Range(curveVols)
  /\ \E v \in ProbeVols : RegimesOf(v) = {} /\ Less(V_max, v)

\* the samples of the pre-half cell whose quadratic has no physically valid root:
\* both roots negative, or both positive
NoValidRoot(i) ==
  LET r1 == pre_solutions[1][i]
      r2 == pre_solutions[2][i]
  IN  \/ Less(r1, Zero) /\ Less(r2, Zero)
      \/ Less(Zero, r1) /\ Less(Zero, r2)

PreHalfDone == pc \in {"cell10", "postEq", "assemble", "done"}

\* C3: the pH sequence never decreases from one sample to the next, for any valid
\* TitrationSpec (checked on the PRE_HALF samples, the ones the notebook computes).
C3_PhNonDecreasing ==
  PreHalfDone => NonDecreasing(pre_pH)

\* the quadratic's residual a*r^2 + b*r + c
Residual(a, b, c, r) == Add(Add(Mul(a, Mul(r, r)), Mul(b, r)), c)

\* the relative precision of np.sqrt in the model, seen in b^2 - 4ac: 3 * 10^(1 - SqrtDigits)
QuadTol == <<3, PowTen(SqrtDigits - 1)>>

QuadCalled == pc = "cell9"
QuadA == quadArgs[1]
QuadB == quadArgs[2]
QuadC == quadArgs[3]

\* C4: for a # 0 and b^2 - 4ac >= 0, quad_solve returns exactly two numbers, the
\* "+ sqrt" root first whatever the magnitudes or signs (so a*r1 >= a*r2, and
\* r1 + r2 = -b/a), and each satisfies a*r^2 + b*r + c = 0 within the precision of
\* the square root: |4a * residual| <= QuadTol * (b^2 - 4ac).
C4_QuadRoots ==
  (QuadCalled /\ QuadA # Zero /\ Leq(Zero, Discriminant(QuadA, QuadB, QuadC))) =>
     /\ Len(solutions) = 2
     /\ IsNum(solutions[1]) /\ IsNum(solutions[2])
     /\ Leq(Mul(QuadA, solutions[2]), Mul(QuadA, solutions[1]))
     /\ Mul(QuadA, Add(solutions[1], solutions[2])) = Neg(QuadB)
     /\ \A k \in 1..2 :
          Leq(AbsR(Mul(Mul(Four, QuadA), Residual(QuadA, QuadB, QuadC, solutions[k]))),
              Mul(QuadTol, Discriminant(QuadA, QuadB, QuadC)))

\* the first root is the smaller in magnitude, a is not 1, and the square root was rounded
C4_Witness ==
  /\ QuadCalled
  /\ Less(Zero, Discriminant(QuadA, QuadB, QuadC))
  /\ Abs(QuadA[1]) > 1
  /\ Less(AbsR(solutions[1]), AbsR(solutions[2]))
  /\ Residual(QuadA, QuadB, QuadC, solutions[1]) # Zero

\* C5: with b^2 - 4ac < 0, quad_solve fails with a DomainError and returns no root.
C5_NegativeDiscriminantRaises ==
  (QuadCalled /\ Less(Discriminant(QuadA, QuadB, QuadC), Zero)) =>
     /\ raised = "DomainError"
     /\ solutions = Unset

GeomDone == pc \in {"cell3", "aborted"}
ValidGeom == Less(Zero, acid_VolI) /\ Less(Zero, acid_ConI) /\ Less(Zero, base_Con)
RefGeom == acid_VolI = RefVol /\ acid_ConI = RefAcidCon /\ base_Con = RefBaseCon

\* |x - ref| <= tol * ref, for ref > 0
WithinRel(x, ref, tol) == Leq(AbsR(Sub(Div(x, ref), One)), tol)

\* 0.00672 mol (in units of 1e-7 mol), 0.0705 L and 0.0353 L
RefMoles == <<67200, 1>>
RefEq == <<705, 10000>>
RefHalf == <<353, 10000>>

\* the general part of C6: moles, V_eq and V_half of valid inputs, and 0 < V_half < V_eq
GeomFormulas ==
  /\ pc = "cell3" /\ raised = "none"
  /\ acid_MolI = Mul(acid_VolI, acid_ConI)
  /\ Mul(eq_pt, base_Con) = acid_MolI
  /\ Add(half_eq_pt, half_eq_pt) = eq_pt
  /\ Less(Zero, half_eq_pt) /\ Less(half_eq_pt, eq_pt)

\* C6 as stated: for inputs > 0 the formulas and 0 < V_half < V_eq hold, and the
\* notebook's inputs give 0.00672, 0.0705 and 0.0353, each within 1e-3 relative tolerance.
C6_GeometryWithin1e3 ==
  (GeomDone /\ ValidGeom) =>
     /\ GeomFormulas
     /\ RefGeom => /\ WithinRel(acid_MolI, RefMoles, <<1, 1000>>)
                   /\ WithinRel(eq_pt, RefEq, <<1, 1000>>)
                   /\ WithinRel(half_eq_pt, RefHalf, <<1, 1000>>)

\* C6, amended: as stated, except that V_half is 0.0353 within 2e-3 (it is 0.035259,
\* which the notebook prints rounded to three significant digits as 0.0353).
C6_Geometry ==
  (GeomDone /\ ValidGeom) =>
     /\ GeomFormulas
     /\ RefGeom => /\ WithinRel(acid_MolI, RefMoles, <<1, 1000>>)
                   /\ WithinRel(eq_pt, RefEq, <<1, 1000>>)
                   /\ WithinRel(half_eq_pt, RefHalf, <<1, 500>>)
                   /\ printed = << <<"num", 672, 2>>, <<"num", 705, -4>>, <<"num", 353, -4>> >>

C6_Witness ==
  /\ GeomDone
  /\ RefGeom
  /\ ~WithinRel(half_eq_pt, RefHalf, <<1, 1000>>)

\* C7: if any of V_a, C_a, C_b is <= 0, compute_equivalence fails with a DomainError
\* and produces no EquivalencePoint.
C7_NonPositiveInputRaises ==
  (GeomDone /\ ~ValidGeom) =>
     /\ raised = "DomainError"
     /\ eq_pt = Unset /\ half_eq_pt = Unset

GridsDone == pc \notin {"cell2", "cell3", "aborted"}

\* n values from lo, strictly ascending, (hi - lo)/n apart, all below hi
HalfOpenGrid(vols, lo, hi, n) ==
  /\ Len(vols) = n
  /\ vols[1] = lo
  /\ StrictlyAscending(vols)
  /\ \A i \in 1..(n - 1) : Sub(vols[i + 1], vols[i]) = Div(Sub(hi, lo), Int2R(n))
  /\ \A i \in 1..n : Leq(lo, vols[i]) /\ Less(vols[i], hi)

\* C8: each half-open grid has exactly n values, strictly ascending and evenly spaced
\* by (hi - lo)/n, the first equal to lo and every one below hi; so the last PRE_HALF
\* volume is below V_half and the last HALF_TO_EQ volume below V_eq.
C8_HalfOpenGrids ==
  GridsDone =>
     /\ HalfOpenGrid(PreHalfEqVols, Zero, half_eq_pt, datapts)
     /\ HalfOpenGrid(PostHalfEqVols, half_eq_pt, eq_pt, datapts)
     /\ Less(PreHalfEqVols[datapts], half_eq_pt)
     /\ Less(PostHalfEqVols[datapts], eq_pt)
     /\ datapts > 1 => /\ VolStep = Div(half_eq_pt, Int2R(datapts))
                       /\ VolStep2 = Div(Sub(eq_pt, half_eq_pt), Int2R(datapts))

C8_Witness ==
  /\ GridsDone
  /\ datapts >= 3
  /\ Less(Zero, PreHalfEqVols[datapts])
  /\ Less(half_eq_pt, PostHalfEqVols[datapts])

\* C9: a regime model reports a ModelInconsistencyError whenever its quadratic has no
\* physically valid root (both roots negative, or more than one positive); otherwise
\* the concentration it uses is the single positive root.
C9_NoValidRootRaises ==
  PreHalfDone =>
     \A i \in 1..datapts :
        IF NoValidRoot(i)
        THEN raised = "ModelInconsistencyError"
        ELSE /\ Less(Zero, preH3Oconc[i])
             /\ preH3Oconc[i] \in {pre_solutions[1][i], pre_solutions[2][i]}

\* C10: once an error is detected at a sample, the computation aborts there: no later
\* step runs and no curve, not even the samples already computed, is returned.
C10_ErrorAborts ==
  (pre_solutions # Unset /\ \E i \in 1..datapts : NoValidRoot(i)) =>
     /\ raised # "none"
     /\ pc = "aborted"
     /\ pre_pH = Unset
     /\ curveVols = Unset

\* a finished run whose inputs are those of the first run has the first run's results
SameAsFirstCall ==
  (pc = "done" /\ CallInputs = firstCall.inputs) =>
     /\ curveVols = firstCall.curve
     /\ CallResults = firstCall.results

\* within a run no step changes the TitrationSpec, V_max or the samples per regime, and
\* no step after the equivalence cell changes the EquivalencePoint
CallKeepsInputs ==
  /\ pc # "done" => UNCHANGED <<acid_VolI, acid_ConI, base_Con, equilibConst, V_max, datapts>>
  /\ pc \notin {"cell2", "done"} => UNCHANGED <<acid_MolI, eq_pt, half_eq_pt>>

\* C11: a run is deterministic and keeps no hidden state: a run with the inputs of the
\* first run, whatever runs came in between and whatever they left in the kernel,
\* yields the same volumes and pH values, and no run changes its TitrationSpec or,
\* once computed, its EquivalencePoint.
C11_Deterministic ==
  []SameAsFirstCall /\ [][CallKeepsInputs]_vars

\* a third or later run, with the first run's inputs, after a run with other inputs
C11_Witness ==
  /\ pc = "done"
  /\ prevInputs # Unset
  /\ prevInputs # CallInputs
  /\ CallInputs = firstCall.inputs
  /\ firstCall.results[6] # <<>>

\* the pre-half model has been evaluated at the half-equivalence point
AtHalfPoint == pc = "cell10" /\ PreHalfEqVols = <<half_eq_pt>>

\* the notebook's own titration: 0.0513 L of 0.131 M acid, 0.0953 M base, K_a = 1.76E-5
RefTitration ==
  /\ acid_VolI = ToFloat(RefVol)
  /\ acid_ConI = ToFloat(RefAcidCon)
  /\ base_Con = ToFloat(RefBaseCon)
  /\ equilibConst = <<176, 1>>

\* at V_half the remaining acid and the conjugate base are the same amount, and so
\* the same concentration (to the last digits of the floating-point products)
EqualAtHalf ==
  /\ WithinRel(Sub(acid_MolI, Mul(half_eq_pt, base_Con)), Mul(half_eq_pt, base_Con),
               <<1, 1000000>>)
  /\ WithinRel(init_acidConc[1], init_baseConc[1], <<1, 1000000>>)

\* pKa + 0.01 and pKa - 0.01 for pKa = 4.754, as concentrations in units of 1e-7:
\* 10^(7 - 4.764) = 172.19 and 10^(7 - 4.744) = 180.30
PKaRef == <<2377, 500>>
PKaTol == <<1, 100>>
ConcBelowPKa == <<17219, 100>>
ConcAbovePKa == <<18030, 100>>

\* C12 as stated: at V_half the two concentrations are equal and the pH is pKa,
\* within 0.01, whatever the valid TitrationSpec.
C12_HalfPointPhIsPKa ==
  AtHalfPoint =>
     /\ EqualAtHalf
     /\ Leq(AbsR(Sub(pre_pH[1], MinusLog10(equilibConst))), PKaTol)

\* C12, amended: at V_half the two concentrations are equal; for the notebook's
\* titration the pH is within 0.01 of pKa = 4.754 (it is 4.757); in general, for
\* K_a > H3O_water, the quadratic's positive root lies strictly between 0 and
\* K_a - H3O_water, so the pH is above pKa and equals it only in the limit.
C12_HalfPoint ==
  AtHalfPoint =>
     /\ EqualAtHalf
     /\ RefTitration =>
           /\ Leq(AbsR(Sub(pre_pH[1], PKaRef)), PKaTol)
           /\ Leq(AbsR(Sub(pre_pH[1], MinusLog10(equilibConst))), PKaTol)
           /\ Less(ConcBelowPKa, preH3Oconc[1]) /\ Less(preH3Oconc[1], ConcAbovePKa)
     /\ Less(H3O_water, equilibConst) =>
           LET b == PreQuadB(init_baseConc[1], equilibConst)
               c == PreQuadC(init_baseConc[1], init_acidConc[1], equilibConst)
           IN  /\ Less(c, Zero)
               /\ Less(Zero, Residual(One, b, c, Sub(equilibConst, H3O_water)))
               /\ Less(Zero, preH3Oconc[1])
               /\ Less(preH3Oconc[1], equilibConst)
               /\ Leq(MinusLog10(equilibConst), pre_pH[1])

C12_Witness ==
  /\ AtHalfPoint
  /\ RefTitration
  /\ init_acidConc[1] = init_baseConc[1]
  /\ pre_pH[1] = <<119, 25>>

\* the pH of the last PRE_HALF sample, and the pre-half model's own pH at V_half
LastPrePh == pre_pH[datapts]
HalfPh == PreHalfPhAt(half_eq_pt, acid_VolI, acid_ConI, base_Con, equilibConst)

\* the pH the excess-strong-base model gives the first POST_EQ sample
FirstPostPh == PostEqPH(PostEqVols[1], acid_VolI, acid_MolI, base_Con)

\* pH values a HALF_TO_EQ model could give its last sample: 0 to 14 by tenths
PhCandidates == {Norm(i, 10) : i \in 0..140}

PhTol == <<1, 20>>

PreHalfSampleOk(i) ==
  LET v     == PreHalfEqVols[i]
      total == Add(acid_VolI, v)
      b     == Add(Add(init_baseConc[i], equilibConst), H3O_water)
      c     == Sub(Mul(init_baseConc[i], H3O_water), Mul(init_acidConc[i], equilibConst))
      r1    == pre_solutions[1][i]
      r2    == pre_solutions[2][i]
  IN  /\ Mul(init_acidConc[i], total) = Sub(Mul(acid_VolI, acid_ConI), Mul(v, base_Con))
      /\ Mul(init_baseConc[i], total) = Mul(v, base_Con)
      /\ Mul(Add(init_acidConc[i], init_baseConc[i]), total) = acid_MolI
      /\ Leq(Zero, Discriminant(One, b, c))
      /\ <<r1, r2>> = quad_solve(One, b, c)
      /\ Add(r1, r2) = Neg(b)
      /\ Sub(r1, r2) = Sqrt(Discriminant(One, b, c))
      /\ preH3Oconc[i] = r1
      /\ pre_pH[i] = MinusLog10(r1)

\* C14: every PRE_HALF sample solves x^2 + b*x + c = 0 with b = [A-] + K_a + H3O_water
\* and c = [A-]*H3O_water - [HA]*K_a, [HA] = (V_a*C_a - v*C_b)/(V_a + v) and
\* [A-] = v*C_b/(V_a + v), so that acid plus conjugate-base moles are initial_moles;
\* at v = 0 there is no conjugate base and, the water term dropped, the quadratic is
\* the pure weak acid's, x^2 + K_a*x - C_a*K_a, which for C_a = 0.131 and
\* K_a = 1.76E-5 gives pH 2.82 within 0.01.
C14_PreHalfQuadratic ==
  PreHalfDone =>
     /\ \A i \in 1..datapts : PreHalfSampleOk(i)
     /\ PreHalfEqVols[1] = Zero
     /\ init_baseConc[1] = Zero /\ init_acidConc[1] = acid_ConI
     /\ Sub(PreQuadB(init_baseConc[1], equilibConst), H3O_water) = equilibConst
     /\ PreQuadC(init_baseConc[1], init_acidConc[1], equilibConst)
          = Neg(Mul(acid_ConI, equilibConst))
     /\ quadArgs = <<One, <<176, 1>>, Neg(Mul(RefAcidCon, <<176, 1>>))>>
     /\ solutions = quad_solve(quadArgs[1], quadArgs[2], quadArgs[3])
     /\ pH = MinusLog10(solutions[1])
     /\ Leq(AbsR(Sub(pH, <<141, 50>>)), <<1, 100>>)
     /\ printed[4] = <<"num", 282, -2>>

C14_Witness ==
  /\ PreHalfDone
  /\ datapts >= 3
  /\ equilibConst = <<176, 1>>
  /\ Less(Zero, init_baseConc[3])
  /\ Less(Zero, preH3Oconc[3])
  /\ pH = <<141, 50>>

\* the constant term of the i-th sample's quadratic
PreHalfC(i) == PreQuadC(init_baseConc[i], init_acidConc[i], equilibConst)

\* C15 as stated: the pre-half cell takes the first value of quad_solve, and for every
\* PRE_HALF volume of every valid TitrationSpec that value is strictly positive and
\* the second one negative.
C15_FirstRootPositiveAlways ==
  PreHalfDone =>
     /\ preH3Oconc = pre_solutions[1]
     /\ \A i \in 1..datapts :
          /\ Less(Zero, pre_solutions[1][i])
          /\ Less(pre_solutions[2][i], Zero)

\* C15, amended: the pre-half cell takes the first value of quad_solve unchecked; it
\* is strictly positive, and the second negative, at every PRE_HALF volume when
\* K_a >= H3O_water, and more generally wherever the constant term
\* [A-]*H3O_water - [HA]*K_a is negative; where that term is positive, which happens
\* only for K_a < H3O_water, both values are negative and the pH is NaN.
C15_FirstRootPositive ==
  PreHalfDone =>
     /\ preH3Oconc = pre_solutions[1]
     /\ \A i \in 1..datapts :
          /\ Leq(H3O_water, equilibConst) => Less(PreHalfC(i), Zero)
          /\ Less(PreHalfC(i), Zero) =>
                /\ Less(Zero, pre_solutions[1][i])
                /\ Less(pre_solutions[2][i], Zero)
                /\ IsNum(pre_pH[i])
          /\ Less(Zero, PreHalfC(i)) =>
                /\ Less(equilibConst, H3O_water)
                /\ Less(pre_solutions[1][i], Zero)
                /\ Less(pre_solutions[2][i], Zero)
                /\ IsNaN(pre_pH[i])

C15_Witness ==
  /\ PreHalfDone
  /\ datapts >= 3
  /\ Leq(H3O_water, equilibConst)
  /\ Less(Zero, pre_solutions[1][datapts])
  /\ Less(pre_solutions[2][datapts], Zero)
  /\ Less(AbsR(pre_solutions[1][datapts]), AbsR(pre_solutions[2][datapts]))

\* acid not yet neutralised at volume v, and titrant in excess at volume v
RemainingAcid(v) == Sub(Mul(acid_VolI, acid_ConI), Mul(v, base_Con))
ExcessTitrant(v) == PostEqExcess(v, acid_MolI, base_Con)

GeometryDone == acid_MolI # Unset /\ eq_pt # Unset /\ half_eq_pt # Unset
AnyGridDone == PreHalfEqVols # Unset \/ PostHalfEqVols # Unset \/ PostEqVols # Unset
AllGridsDone == PreHalfEqVols # Unset /\ PostHalfEqVols # Unset /\ PostEqVols # Unset
PreHalfModelDone == pre_pH # Unset
CurveDone == curveVols # Unset

\* the geometry before any grid, a regime's grid before its model, every regime's
\* samples before the assembled curve
StagesInOrder ==
  /\ AnyGridDone => GeometryDone
  /\ PreHalfModelDone => PreHalfEqVols # Unset
  /\ CurveDone => AllGridsDone /\ PreHalfModelDone

\* the values the stages own, in stage order
StageValues ==
  <<acid_MolI, eq_pt, half_eq_pt, PreHalfEqVols, VolStep, PostHalfEqVols, VolStep2,
    init_baseConc, init_acidConc, pre_solutions, preH3Oconc, pre_pH, PostEqVols,
    curveVols>>

\* a step leaves the TitrationSpec and every value already produced as they are
WritesNothingEarlier ==
  /\ UNCHANGED <<acid_VolI, acid_ConI, base_Con, equilibConst, V_max, datapts>>
  /\ \A i \in 1..Len(StageValues) : StageValues[i] # Unset => StageValues'[i] = StageValues[i]

\* a stage runs while every later stage's values are still unset, and what it
\* produces is determined by the values of the stages before it
ReadsNothingLater ==
  /\ eq_pt' # eq_pt =>
        /\ ~AnyGridDone /\ ~PreHalfModelDone /\ ~CurveDone
        /\ eq_pt' = EqPt(MolI(acid_VolI, acid_ConI), base_Con)
        /\ half_eq_pt' = HalfEqPt(eq_pt')
  /\ (PreHalfEqVols' # PreHalfEqVols \/ PostHalfEqVols' # PostHalfEqVols) =>
        /\ GeometryDone /\ ~PreHalfModelDone /\ ~CurveDone
        /\ PreHalfEqVols' = PreHalfGrid(half_eq_pt, datapts)
        /\ PostHalfEqVols' = PostHalfGrid(half_eq_pt, eq_pt, datapts)
  /\ pre_pH' # pre_pH =>
        /\ PreHalfEqVols # Unset /\ ~CurveDone
        /\ pre_pH' = [i \in 1..Len(PreHalfEqVols) |->
                        PreHalfPhAt(PreHalfEqVols[i], acid_VolI, acid_ConI, base_Con,
                                    equilibConst)]
  /\ PostEqVols' # PostEqVols =>
        /\ GeometryDone /\ ~CurveDone
        /\ PostEqVols' = PostEqGrid(eq_pt, V_max, datapts)
  /\ curveVols' # curveVols =>
        /\ AllGridsDone /\ PreHalfModelDone
        /\ curveVols' = Assemble(PreHalfEqVols, PostHalfEqVols, PostEqVols)

============================================================================
